---- MODULE Spec2Model ----
(***************************************************************************)
(* CodeBlock (template_engine/blocks/code_block.py): construction-time     *)
(* token validation and render-time function dispatch, and the part of     *)
(* AstraDBMemoryStore (connectors/memory/astradb/astradb_memory_store.py)  *)
(* that creates collections.                                               *)
(***************************************************************************)
EXTENDS Integers, Sequences, FiniteSets, TLC

VARIABLES
    tokens_in,   \* the token list handed to the CodeBlock constructor
    constructed, \* whether the constructor has run
    block,       \* self.tokens of the constructed CodeBlock, <<>> when no object exists
    token_error, \* the CodeBlockTokenError raised by construction, "none" otherwise
    kernel,      \* [set, plugins]: the kernel the renders run against
    heap,        \* KernelArguments objects by reference; BaseRef is the caller's
    pc,          \* per render_code call: "idle", "invoking" (suspended in invoke), "done"
    call,        \* per render_code call: the function resolved, whether it was invoked,
                 \* the arguments object it got and what it returned
    outcome,     \* per render_code call: the string returned or the error raised
    steps,       \* per render_code call: the steps of _render_function_call, in order
    store,       \* the AstraDBMemoryStore instance: its attributes
    requests,    \* the createCollection requests posted so far
    last_call    \* the last create_collection_async call and how it ended

vars == <<tokens_in, constructed, block, token_error, kernel, heap, pc, call,
          outcome, steps, store, requests, last_call>>

codeVars == <<tokens_in, constructed, block, token_error, kernel, heap, pc, call,
              outcome, steps>>
astraVars == <<store, requests, last_call>>

---------------------------------------------------------------------------
(* Bounds *)

MaxLen == 3        \* longest token list given to the constructor
NumRenders == 2    \* concurrent render_code calls sharing one arguments object
MaxCalls == 2      \* create_collection_async calls on one store

---------------------------------------------------------------------------
(* Tokens: BlockTypes and the token blocks *)

BlockTypes_VALUE == "value"
BlockTypes_VARIABLE == "variable"
BlockTypes_NAMED_ARG == "named_arg"
BlockTypes_FUNCTION_ID == "function_id"

VALID_ARG_TYPES == {BlockTypes_VALUE, BlockTypes_VARIABLE, BlockTypes_NAMED_ARG}

NoPluginName == "<None>"   \* FunctionIdBlock.plugin_name is None

ValBlock(c) == [type |-> BlockTypes_VALUE, content |-> c]
VarBlock(n) == [type |-> BlockTypes_VARIABLE, name |-> n]
NamedArgBlock(n, t) == [type |-> BlockTypes_NAMED_ARG, name |-> n, value |-> t]
FunctionIdBlock(p, f) == [type |-> BlockTypes_FUNCTION_ID, plugin_name |-> p, function_name |-> f]

Names == {"a", "b"}

ValueTokens == {ValBlock("2")}
VariableTokens == {VarBlock(n) : n \in Names}
NamedArgTokens ==
    {NamedArgBlock("a", ValBlock("2")), NamedArgBlock("b", ValBlock("3")),
     NamedArgBlock("b", VarBlock("a"))}
FunctionIdTokens == {FunctionIdBlock(p, "f") : p \in {NoPluginName, "", "p", "q"}}

Tokens == ValueTokens \cup VariableTokens \cup NamedArgTokens \cup FunctionIdTokens

TokenLists == UNION {[1..n -> Tokens] : n \in 0..MaxLen}

---------------------------------------------------------------------------
(* CodeBlock.check_tokens *)

EmptySequence == "The content should contain at least one token."
LeadingNamedArg == "The first token needs to be a function_id, value or variable"
InvalidSecondToken == "Unexpected type for the second token type"
ExpectedNamedArg == "Every argument for the function after the first has to be a named arg"

Validated(ts) == [raised |-> "none", tokens |-> ts]
TokenError(e) == [raised |-> e, tokens |-> <<>>]

\* the loop of check_tokens without the early return on a leading value or variable
RECURSIVE check_tokens_loop_no_return(_, _)
check_tokens_loop_no_return(tokens, index) ==
    IF index >= Len(tokens) THEN Validated(tokens)
    ELSE LET token == tokens[index + 1] IN
         IF index = 0 /\ token.type = BlockTypes_NAMED_ARG THEN TokenError(LeadingNamedArg)
         ELSE IF index = 1 /\ token.type \notin VALID_ARG_TYPES
              THEN TokenError(InvalidSecondToken)
         ELSE IF index > 1 /\ token.type # BlockTypes_NAMED_ARG THEN TokenError(ExpectedNamedArg)
         ELSE check_tokens_loop_no_return(tokens, index + 1)

\* the loop of check_tokens from Python index `index` on (tokens[index + 1] here)
RECURSIVE check_tokens_loop(_, _)
check_tokens_loop(tokens, index) ==
    IF index >= Len(tokens) THEN Validated(tokens)
    ELSE LET token == tokens[index + 1] IN
         IF index = 0 /\ token.type = BlockTypes_NAMED_ARG THEN TokenError(LeadingNamedArg)
         ELSE IF index = 0 /\ token.type \in {BlockTypes_VALUE, BlockTypes_VARIABLE} THEN Validated(<<token>>)
         ELSE IF index = 1 /\ token.type \notin VALID_ARG_TYPES
              THEN TokenError(InvalidSecondToken)
         ELSE IF index > 1 /\ token.type # BlockTypes_NAMED_ARG THEN TokenError(ExpectedNamedArg)
         ELSE check_tokens_loop(tokens, index + 1)

\* check_tokens without the test for an empty list
check_tokens_no_empty_test(tokens) == check_tokens_loop(tokens, 0)

check_tokens(tokens) ==
    IF tokens = <<>> THEN TokenError(EmptySequence)
    ELSE check_tokens_loop(tokens, 0)

---------------------------------------------------------------------------
(* The collaborators of render: KernelArguments, the token blocks' render, *)
(* KernelPluginCollection, KernelPlugin, KernelFunction, FunctionResult    *)

Absent == "<absent>"       \* a key the KernelArguments dict does not hold
BaseRef == 0               \* the caller's KernelArguments object

EmptyArguments == [n \in Names |-> Absent]
BaseArguments == {EmptyArguments, [n \in Names |-> IF n = "a" THEN "1" ELSE "9"]}

\* arguments.get(name, None)
arguments_get(arguments, name) == arguments[name]

\* ValBlock.render / VarBlock.render / NamedArgBlock.render
render(token, arguments) ==
    LET var(name) == IF arguments_get(arguments, name) = Absent THEN ""
                     ELSE arguments_get(arguments, name)
    IN  IF token.type = BlockTypes_VALUE THEN token.content
        ELSE IF token.type = BlockTypes_VARIABLE THEN var(token.name)
        ELSE IF token.value.type = BlockTypes_VALUE THEN token.value.content
        ELSE var(token.value.name)

KernelFunction(p, f, params) == [plugin_name |-> p, name |-> f, parameters |-> params]
NoFunction == KernelFunction("<None>", "<None>", <<>>)

KernelPlugin(p, fs) == [name |-> p, functions |-> fs]
NoPlugin == KernelPlugin("<None>", {})

P_f_ab == KernelPlugin("p", {KernelFunction("p", "f", <<"a", "b">>)})
P_g_a == KernelPlugin("p", {KernelFunction("p", "g", <<"a">>)})
Q_f == KernelPlugin("q", {KernelFunction("q", "f", <<>>)})

\* kernel.plugins: None, or the plugins in registration order
NonePlugins == [present |-> FALSE, items |-> <<>>]
PluginCollection(items) == [present |-> TRUE, items |-> items]

Registries ==
    {NonePlugins, PluginCollection(<<>>)}
    \cup {PluginCollection(<<x>>) : x \in {P_f_ab, P_g_a, Q_f}}
    \cup {PluginCollection(<<x, Q_f>>) : x \in {P_f_ab, P_g_a}}
    \cup {PluginCollection(<<Q_f, x>>) : x \in {P_f_ab, P_g_a}}

\* bool(kernel.plugins)
plugins_bool(plugins) == plugins.present /\ plugins.items # <<>>

\* plugins[plugin_name]
plugins_getitem(plugins, plugin_name) ==
    LET hit == {i \in 1..Len(plugins.items) : plugins.items[i].name = plugin_name}
    IN  IF hit = {} THEN NoPlugin ELSE plugins.items[CHOOSE i \in hit : TRUE]

\* function_name in plugin
plugin_contains(plugin, function_name) ==
    \E fn \in plugin.functions : fn.name = function_name

\* plugin[function_name]
plugin_getitem(plugin, function_name) ==
    IF plugin_contains(plugin, function_name)
    THEN CHOOSE fn \in plugin.functions : fn.name = function_name
    ELSE NoFunction

\* for plugin in plugins
plugins_iter(plugins) == plugins.items

NoError == "<no error>"
NoneValue == "<None>"
FunctionResult(v, e) == [value |-> v, error |-> e]
Results ==
    {FunctionResult("r", NoError), FunctionResult(NoneValue, NoError),
     FunctionResult(NoneValue, "exc")}

\* result.metadata.get("error", None)
result_error(result) == result.error
\* bool(result)
result_bool(result) == TRUE
\* str(result)
result_str(result) == IF result.value = NoneValue THEN "" ELSE result.value

---------------------------------------------------------------------------
(* CodeBlock: rendering *)

NoRegistry == "Plugin collection not set in kernel"
FunctionNotFound == "Function not found"
ArityMismatch == "Function does not take any arguments"
InvocationFailed == "Error rendering function"

\* arguments_clone = arguments: no copy, the caller's object itself
copy_alias(h, ref, fresh) == [heap |-> h, ref |-> ref]

\* copy(arguments): a new KernelArguments object holding the same entries
copy(h, ref, fresh) == [heap |-> (fresh :> h[ref]) @@ h, ref |-> fresh]

\* resolution that returns the last plugin holding the name, not the first
_get_function_last_match(plugins, function_block) ==
    IF function_block.plugin_name # NoPluginName /\ function_block.plugin_name # ""
    THEN plugin_getitem(plugins_getitem(plugins, function_block.plugin_name),
                        function_block.function_name)
    ELSE LET items == plugins_iter(plugins)
             hit == {i \in 1..Len(items) :
                        plugin_contains(items[i], function_block.function_name)}
         IN  IF hit = {} THEN NoFunction
             ELSE plugin_getitem(items[CHOOSE i \in hit : \A j \in hit : i >= j],
                                 function_block.function_name)

\* resolution that falls back to the search of every plugin when the named
\* plugin does not yield the function
_get_function_with_fallback(plugins, function_block) ==
    LET items == plugins_iter(plugins)
        hit == {i \in 1..Len(items) :
                   plugin_contains(items[i], function_block.function_name)}
        named == plugin_getitem(plugins_getitem(plugins, function_block.plugin_name),
                                function_block.function_name)
    IN  IF function_block.plugin_name # NoPluginName /\ function_block.plugin_name # ""
           /\ named # NoFunction
        THEN named
        ELSE IF hit = {} THEN NoFunction
             ELSE plugin_getitem(items[CHOOSE i \in hit : \A j \in hit : i <= j],
                                 function_block.function_name)

_get_function_from_plugin_collection(plugins, function_block) ==
    IF function_block.plugin_name # NoPluginName /\ function_block.plugin_name # ""
    THEN plugin_getitem(plugins_getitem(plugins, function_block.plugin_name),
                        function_block.function_name)
    ELSE LET items == plugins_iter(plugins)
             hit == {i \in 1..Len(items) :
                        plugin_contains(items[i], function_block.function_name)}
         IN  IF hit = {} THEN NoFunction
             ELSE plugin_getitem(items[CHOOSE i \in hit : \A j \in hit : i <= j],
                                 function_block.function_name)

\* the loop of _enrich_function_arguments from Python index `index` on, writing
\* into the object `ref`
RECURSIVE enrich_loop(_, _, _, _, _)
enrich_loop(tokens, index, h, ref, parameters) ==
    IF index >= Len(tokens) THEN h
    ELSE LET token == tokens[index + 1]
             rendered_value == render(token, h[ref])
             key == IF token.type # BlockTypes_NAMED_ARG /\ index = 1
                    THEN parameters[1]
                    ELSE token.name
         IN  enrich_loop(tokens, index + 1,
                         [h EXCEPT ![ref][key] = rendered_value], ref, parameters)

\* _enrich_function_arguments whose loop starts one token late
_enrich_skips_first_argument(tokens, h, ref, function_metadata) ==
    IF function_metadata.parameters = <<>>
    THEN [raised |-> ArityMismatch, heap |-> h]
    ELSE [raised |-> "none",
          heap |-> enrich_loop(tokens, 2, h, ref, function_metadata.parameters)]

\* _enrich_function_arguments that tests the parameter list only for a positional
\* first argument
_enrich_checks_positional_only(tokens, h, ref, function_metadata) ==
    IF function_metadata.parameters = <<>> /\ tokens[2].type # BlockTypes_NAMED_ARG
    THEN [raised |-> ArityMismatch, heap |-> h]
    ELSE [raised |-> "none",
          heap |-> enrich_loop(tokens, 1, h, ref, function_metadata.parameters)]

_enrich_function_arguments(tokens, h, ref, function_metadata) ==
    IF function_metadata.parameters = <<>>
    THEN [raised |-> ArityMismatch, heap |-> h]
    ELSE [raised |-> "none",
          heap |-> enrich_loop(tokens, 1, h, ref, function_metadata.parameters)]

\* _render_function_call without the test of kernel.plugins
_render_function_call_no_registry_test(tokens, plugins, h, arguments, fresh) ==
    LET function == _get_function_from_plugin_collection(plugins, tokens[1]) IN
    IF function = NoFunction
    THEN [raised |-> FunctionNotFound, heap |-> h, function |-> NoFunction,
          ref |-> arguments, steps |-> <<"resolve">>]
    ELSE
    LET arguments_clone == copy(h, arguments, fresh) IN
    IF Len(tokens) > 1
    THEN LET enriched == _enrich_function_arguments(
                             tokens, arguments_clone.heap, arguments_clone.ref, function)
         IN  IF enriched.raised # "none"
             THEN [raised |-> enriched.raised, heap |-> enriched.heap,
                   function |-> function, ref |-> arguments_clone.ref,
                   steps |-> <<"resolve", "bind">>]
             ELSE [raised |-> "none", heap |-> enriched.heap,
                   function |-> function, ref |-> arguments_clone.ref,
                   steps |-> <<"resolve", "bind", "invoke">>]
    ELSE [raised |-> "none", heap |-> arguments_clone.heap,
          function |-> function, ref |-> arguments_clone.ref,
          steps |-> <<"resolve", "invoke">>]

\* _render_function_call up to `await function.invoke(kernel, arguments_clone)`
_render_function_call(tokens, plugins, h, arguments, fresh) ==
    IF ~plugins_bool(plugins)
    THEN [raised |-> NoRegistry, heap |-> h, function |-> NoFunction,
          ref |-> arguments, steps |-> <<"registry">>]
    ELSE
    LET function == _get_function_from_plugin_collection(plugins, tokens[1]) IN
    IF function = NoFunction
    THEN [raised |-> FunctionNotFound, heap |-> h, function |-> NoFunction,
          ref |-> arguments, steps |-> <<"registry", "resolve">>]
    ELSE
    LET arguments_clone == copy(h, arguments, fresh) IN
    IF Len(tokens) > 1
    THEN LET enriched == _enrich_function_arguments(
                             tokens, arguments_clone.heap, arguments_clone.ref, function)
         IN  IF enriched.raised # "none"
             THEN [raised |-> enriched.raised, heap |-> enriched.heap,
                   function |-> function, ref |-> arguments_clone.ref,
                   steps |-> <<"registry", "resolve", "bind">>]
             ELSE [raised |-> "none", heap |-> enriched.heap,
                   function |-> function, ref |-> arguments_clone.ref,
                   steps |-> <<"registry", "resolve", "bind", "invoke">>]
    ELSE [raised |-> "none", heap |-> arguments_clone.heap,
          function |-> function, ref |-> arguments_clone.ref,
          steps |-> <<"registry", "resolve", "invoke">>]

\* the conversion without the test of the result's error
render_result_ignores_error(result) ==
    [kind |-> "string",
     value |-> IF result_bool(result) THEN result_str(result) ELSE ""]

\* _render_function_call after the await: the error check and the conversion
render_result(result) ==
    IF result_error(result) # NoError
    THEN [kind |-> "error", value |-> InvocationFailed]
    ELSE [kind |-> "string",
          value |-> IF result_bool(result) THEN result_str(result) ELSE ""]

---------------------------------------------------------------------------
(* CodeBlock: the state machine of one block, one kernel and the render    *)
(* calls made on them                                                      *)

Renders == 1..NumRenders

NoCall == [invoked |-> FALSE, function |-> NoFunction, ref |-> BaseRef,
           arguments |-> EmptyArguments, result |-> FunctionResult(NoneValue, NoError)]
NoOutcome == [kind |-> "none", value |-> ""]
NoKernel == [ready |-> FALSE, plugins |-> NonePlugins, arguments |-> EmptyArguments]

CodeIdle ==
    /\ constructed = FALSE
    /\ block = <<>>
    /\ token_error = "none"
    /\ kernel = NoKernel
    /\ heap = (BaseRef :> EmptyArguments)
    /\ pc = [r \in Renders |-> "idle"]
    /\ call = [r \in Renders |-> NoCall]
    /\ outcome = [r \in Renders |-> NoOutcome]
    /\ steps = [r \in Renders |-> <<>>]

\* CodeBlock(tokens=tokens_in): the field validator check_tokens decides whether
\* an object exists
Construct ==
    /\ ~constructed
    /\ LET checked == check_tokens(tokens_in) IN
       /\ constructed' = TRUE
       /\ block' = checked.tokens
       /\ token_error' = checked.raised
    /\ UNCHANGED <<tokens_in, kernel, heap, pc, call, outcome, steps>>

\* the caller's kernel (its plugins) and the KernelArguments it renders with
SetKernel ==
    /\ constructed /\ token_error = "none"
    /\ ~kernel.ready
    /\ \E plugins \in Registries, arguments \in BaseArguments :
         /\ kernel' = [ready |-> TRUE, plugins |-> plugins, arguments |-> arguments]
         /\ heap' = (BaseRef :> arguments)
    /\ UNCHANGED <<tokens_in, constructed, block, token_error, pc, call, outcome, steps>>

CanStart(r) ==
    /\ kernel.ready
    /\ pc[r] = "idle"
    /\ r > 1 => pc[r - 1] # "idle"

\* render_code on a block whose first token is a value or a variable
RenderValue(r) ==
    /\ CanStart(r)
    /\ block[1].type # BlockTypes_FUNCTION_ID
    /\ pc' = [pc EXCEPT ![r] = "done"]
    /\ outcome' = [outcome EXCEPT
                     ![r] = [kind |-> "string", value |-> render(block[1], heap[BaseRef])]]
    /\ UNCHANGED <<tokens_in, constructed, block, token_error, kernel, heap, call, steps>>

\* render_code on a function call, up to the await of function.invoke
RenderFunctionCall(r) ==
    /\ CanStart(r)
    /\ block[1].type = BlockTypes_FUNCTION_ID
    /\ LET run == _render_function_call(block, kernel.plugins, heap, BaseRef, r) IN
       /\ heap' = run.heap
       /\ steps' = [steps EXCEPT ![r] = run.steps]
       /\ call' = [call EXCEPT ![r] = [invoked |-> run.raised = "none",
                                       function |-> run.function,
                                       ref |-> run.ref,
                                       arguments |-> run.heap[run.ref],
                                       result |-> NoCall.result]]
       /\ IF run.raised # "none"
          THEN /\ pc' = [pc EXCEPT ![r] = "done"]
               /\ outcome' = [outcome EXCEPT ![r] = [kind |-> "error", value |-> run.raised]]
          ELSE /\ pc' = [pc EXCEPT ![r] = "invoking"]
               /\ outcome' = outcome
    /\ UNCHANGED <<tokens_in, constructed, block, token_error, kernel>>

\* function.invoke returns: the error check and the conversion to a string
InvokeReturn(r) ==
    /\ pc[r] = "invoking"
    /\ \E result \in Results :
         /\ call' = [call EXCEPT ![r].result = result]
         /\ outcome' = [outcome EXCEPT ![r] = render_result(result)]
    /\ steps' = [steps EXCEPT ![r] = Append(@, "convert")]
    /\ pc' = [pc EXCEPT ![r] = "done"]
    /\ UNCHANGED <<tokens_in, constructed, block, token_error, kernel, heap>>

---------------------------------------------------------------------------
(* AstraDBMemoryStore: __init__ and create_collection_async *)

MAX_DIMENSIONALITY == 20000

NoDimension == -1   \* dimension_num is None
DefaultDimensionalities == {2, 1536, MAX_DIMENSIONALITY, MAX_DIMENSIONALITY + 1}
DimensionNums == {NoDimension, 3, MAX_DIMENSIONALITY, MAX_DIMENSIONALITY + 1}
CollectionNames == {"c1", "c2"}

NoStore == [state |-> "new", default_dimensionality |-> 0, attributes |-> {},
            _default_dimensionality |-> 0]
NoCreate == [n |-> 0, collection_name |-> "", dimension_num |-> NoDimension,
             raised |-> "none", sent |-> FALSE]

AstraIdle ==
    /\ store = NoStore
    /\ requests = <<>>
    /\ last_call = NoCreate

\* AstraDBMemoryStore.__init__
__init__(default_dimensionality) ==
    IF default_dimensionality > MAX_DIMENSIONALITY
    THEN [state |-> "ValueError", default_dimensionality |-> default_dimensionality,
          attributes |-> {}, _default_dimensionality |-> 0]
    ELSE [state |-> "ok", default_dimensionality |-> default_dimensionality,
          attributes |-> {"_request_url", "_request_header", "_logger"},
          _default_dimensionality |-> 0]

\* AstraDBMemoryStore.create_collection_async; `ok` is whether the service answers
\* 200 with a status
create_collection_async(self, collection_name, dimension_num, ok) ==
    IF dimension_num = NoDimension /\ "_default_dimensionality" \notin self.attributes
    THEN [raised |-> "AttributeError", request |-> <<>>]
    ELSE
    LET dim == IF dimension_num = NoDimension THEN self._default_dimensionality
               ELSE dimension_num
    IN  IF dim > MAX_DIMENSIONALITY
        THEN [raised |-> "ValueError", request |-> <<>>]
        ELSE [raised |-> IF ok THEN "none" ELSE "Exception",
              request |-> <<[name |-> collection_name, dimension |-> dim,
                             metric |-> "cosine"]>>]

NewStore ==
    /\ store.state = "new"
    /\ \E d \in DefaultDimensionalities : store' = __init__(d)
    /\ UNCHANGED <<requests, last_call>>

CreateCollection ==
    /\ store.state = "ok"
    /\ last_call.n < MaxCalls
    /\ \E name \in CollectionNames, dimension_num \in DimensionNums, ok \in BOOLEAN :
         LET run == create_collection_async(store, name, dimension_num, ok) IN
         /\ requests' = requests \o run.request
         /\ last_call' = [n |-> last_call.n + 1, collection_name |-> name,
                          dimension_num |-> dimension_num, raised |-> run.raised,
                          sent |-> run.request # <<>>]
    /\ UNCHANGED store

---------------------------------------------------------------------------
(* Specifications *)

Init ==
    /\ tokens_in \in TokenLists
    /\ CodeIdle
    /\ AstraIdle

Next ==
    \/ Construct /\ UNCHANGED astraVars
    \/ SetKernel /\ UNCHANGED astraVars
    \/ \E r \in Renders : RenderValue(r) /\ UNCHANGED astraVars
    \/ \E r \in Renders : RenderFunctionCall(r) /\ UNCHANGED astraVars
    \/ \E r \in Renders : InvokeReturn(r) /\ UNCHANGED astraVars

Spec == Init /\ [][Next]_vars

InitAstra ==
    /\ tokens_in = <<>>
    /\ CodeIdle
    /\ AstraIdle

NextAstra ==
    \/ NewStore /\ UNCHANGED codeVars
    \/ CreateCollection /\ UNCHANGED codeVars

SpecAstra == InitAstra /\ [][NextAstra]_vars

---------------------------------------------------------------------------
(* Properties *)

IsFunctionCall == block # <<>> /\ block[1].type = BlockTypes_FUNCTION_ID

Started(r) == pc[r] # "idle"

Min(S) == CHOOSE x \in S : \A y \in S : x <= y
Max(S) == CHOOSE x \in S : \A y \in S : x >= y

\* the token error the grammar asks for, "none" when the list is legal
GrammarError(tokens) ==
    IF Len(tokens) = 0 THEN EmptySequence
    ELSE IF tokens[1].type = BlockTypes_NAMED_ARG THEN LeadingNamedArg
    ELSE IF tokens[1].type # BlockTypes_FUNCTION_ID THEN "none"
    ELSE LET bad == {i \in 2..Len(tokens) :
                        \/ i = 2 /\ tokens[i].type = BlockTypes_FUNCTION_ID
                        \/ i > 2 /\ tokens[i].type # BlockTypes_NAMED_ARG}
         IN  IF bad = {} THEN "none"
             ELSE IF Min(bad) = 2 THEN InvalidSecondToken
             ELSE ExpectedNamedArg

\* C1: construction fails with a token error exactly when the list is empty
\* (EmptySequence), starts with a named argument (LeadingNamedArg), or starts
\* with a function id followed by a second token that is no value, variable or
\* named argument (InvalidSecondToken) or by a later token that is no named
\* argument (ExpectedNamedArg); the first violation in token order is the one
\* reported, every other list is accepted, and no block exists after a failure.
C1_TokenErrorsExactly ==
    constructed =>
        /\ token_error = GrammarError(tokens_in)
        /\ (token_error # "none") <=> (block = <<>>)

\* a function id followed by a function id and by a value: two violations, the
\* first one is reported
C1_Witness ==
    /\ constructed
    /\ Len(tokens_in) = 3
    /\ tokens_in[1].type = BlockTypes_FUNCTION_ID
    /\ tokens_in[2].type = BlockTypes_FUNCTION_ID
    /\ tokens_in[3].type = BlockTypes_VALUE
    /\ token_error = InvalidSecondToken
    /\ block = <<>>

\* the value a variable lookup yields in the caller's arguments
Lookup(arguments, name) == IF arguments[name] = Absent THEN "" ELSE arguments[name]

\* the name the token at position i (2..Len) is bound under
BoundName(tokens, i, parameters) ==
    IF i = 2 /\ tokens[i].type # BlockTypes_NAMED_ARG THEN parameters[1]
    ELSE tokens[i].name

\* the value the token at position i is bound to: a literal, or the variable's
\* value as left by the last earlier argument of that name, else the caller's
RECURSIVE BoundValue(_, _, _, _)
BoundValue(tokens, i, parameters, arguments) ==
    LET token == tokens[i]
        inner == IF token.type = BlockTypes_NAMED_ARG THEN token.value ELSE token
        earlier == IF inner.type = BlockTypes_VARIABLE
                   THEN {j \in 2..(i - 1) : BoundName(tokens, j, parameters) = inner.name}
                   ELSE {}
    IN  IF inner.type = BlockTypes_VALUE THEN inner.content
        ELSE IF earlier = {} THEN Lookup(arguments, inner.name)
        ELSE BoundValue(tokens, Max(earlier), parameters, arguments)

\* the caller's arguments overridden by the arguments of the call
ExpectedArguments(tokens, parameters, arguments) ==
    [n \in Names |->
        LET writers == {i \in 2..Len(tokens) : BoundName(tokens, i, parameters) = n}
        IN  IF writers = {} THEN arguments[n]
            ELSE BoundValue(tokens, Max(writers), parameters, arguments)]

Resolves(plugins, function_block) ==
    \E i \in 1..Len(plugins.items) :
        /\ function_block.plugin_name \in {NoPluginName, "", plugins.items[i].name}
        /\ \E fn \in plugins.items[i].functions : fn.name = function_block.function_name

\* C3: with a registry present and non-empty, a function call whose function id
\* resolves to nothing (a named plugin that is not registered or does not hold the
\* name, with no search of the other plugins; or no plugin name and no plugin
\* holding the name) fails with FunctionNotFound: no other error, no string, no
\* invocation.
C3_FunctionNotFound ==
    \A r \in Renders :
        (/\ Started(r) /\ IsFunctionCall
         /\ plugins_bool(kernel.plugins)
         /\ ~Resolves(kernel.plugins, block[1])) =>
            /\ pc[r] = "done"
            /\ outcome[r] = [kind |-> "error", value |-> FunctionNotFound]
            /\ ~call[r].invoked

\* `q.f` against a registry where only plugin p holds f: no fallback
C3_Witness ==
    \E r \in Renders :
        /\ block # <<>> /\ block[1] = FunctionIdBlock("q", "f")
        /\ kernel.plugins = PluginCollection(<<P_f_ab>>)
        /\ pc[r] = "done"
        /\ outcome[r] = [kind |-> "error", value |-> FunctionNotFound]

\* C4: a function call with at least one argument token whose function declares
\* no parameters fails with ArityMismatch, positional or named argument alike,
\* and the function is not invoked; with no argument token it is invoked.
C4_ArityMismatch ==
    \A r \in Renders :
        (/\ Started(r) /\ IsFunctionCall
         /\ call[r].function # NoFunction
         /\ call[r].function.parameters = <<>>) =>
            IF Len(block) > 1
            THEN /\ pc[r] = "done"
                 /\ outcome[r] = [kind |-> "error", value |-> ArityMismatch]
                 /\ ~call[r].invoked
                 /\ "invoke" \notin {steps[r][i] : i \in 1..Len(steps[r])}
            ELSE call[r].invoked

\* q.f() called with one named argument
C4_Witness ==
    \E r \in Renders :
        /\ Len(block) = 2 /\ block[2].type = BlockTypes_NAMED_ARG
        /\ call[r].function = KernelFunction("q", "f", <<>>)
        /\ pc[r] = "done"
        /\ outcome[r] = [kind |-> "error", value |-> ArityMismatch]

\* the names some argument token of the call is bound under
BoundNames(tokens, parameters) ==
    {BoundName(tokens, i, parameters) : i \in 2..Len(tokens)}

\* C5: a render writes its arguments into its own copy only: the caller's
\* arguments object holds the entries the caller put there in every state, on
\* success and on failure; every invoked function got an object of its own,
\* which while the render is suspended in the invocation still holds what the
\* function was invoked with, and which holds the caller's value under every
\* name the call itself does not bind.
C5_OwnClone ==
    kernel.ready =>
        /\ heap[BaseRef] = kernel.arguments
        /\ \A r \in Renders :
               call[r].invoked =>
                   /\ call[r].ref # BaseRef
                   /\ \A q \in Renders \ {r} : call[q].invoked => call[q].ref # call[r].ref
                   /\ pc[r] = "invoking" => heap[call[r].ref] = call[r].arguments
                   /\ \A n \in Names \ BoundNames(block, call[r].function.parameters) :
                          call[r].arguments[n] = kernel.arguments[n]

\* a second render ran and returned while the first was suspended in its
\* invocation, both having overridden an entry the caller holds
C5_Witness ==
    \E r, q \in Renders :
        /\ r # q
        /\ pc[r] = "invoking" /\ pc[q] = "done"
        /\ call[r].invoked /\ call[q].invoked
        /\ kernel.arguments["a"] = "1"
        /\ call[r].arguments["a"] = "2" /\ call[q].arguments["a"] = "2"
        /\ heap[BaseRef]["a"] = "1"

Count(seq, x) == Cardinality({i \in 1..Len(seq) : seq[i] = x})

\* C6: a result that carries an error makes the render fail with
\* InvocationFailed, never return a string; a result without one is returned in
\* its string form, the empty string for a result without a value; the function
\* was invoked once, with no retry.
C6_ResultConversion ==
    \A r \in Renders :
        (pc[r] = "done" /\ call[r].invoked) =>
            /\ Count(steps[r], "invoke") = 1
            /\ IF call[r].result.error # NoError
               THEN outcome[r] = [kind |-> "error", value |-> InvocationFailed]
               ELSE outcome[r] =
                        [kind |-> "string",
                         value |-> IF call[r].result.value = NoneValue THEN ""
                                   ELSE call[r].result.value]

\* one render failed on a result with an error, another rendered a result without
\* a value as the empty string
C6_Witness ==
    \E r, q \in Renders :
        /\ pc[r] = "done" /\ call[r].invoked /\ call[r].result.error = "exc"
        /\ outcome[r] = [kind |-> "error", value |-> InvocationFailed]
        /\ pc[q] = "done" /\ call[q].invoked
        /\ call[q].result = FunctionResult(NoneValue, NoError)
        /\ outcome[q] = [kind |-> "string", value |-> ""]

\* C7: a list that starts with a value or a variable is accepted whatever
\* follows, and every render returns the rendering of that first token alone (a
\* value's content, a variable's entry in the caller's arguments or the empty
\* string), whatever the kernel's plugins are, resolving and invoking nothing.
C7_LeadingValueOrVariable ==
    (/\ constructed /\ tokens_in # <<>>
     /\ tokens_in[1].type \in {BlockTypes_VALUE, BlockTypes_VARIABLE}) =>
        /\ token_error = "none"
        /\ block # <<>>
        /\ \A r \in Renders :
               Started(r) =>
                   /\ pc[r] = "done"
                   /\ outcome[r] =
                          [kind |-> "string",
                           value |-> IF tokens_in[1].type = BlockTypes_VALUE
                                     THEN tokens_in[1].content
                                     ELSE Lookup(kernel.arguments, tokens_in[1].name)]
                   /\ steps[r] = <<>>
                   /\ call[r] = NoCall

\* a variable followed by a function id and a value, rendered without plugins and
\* with the variable unbound
C7_Witness ==
    \E r \in Renders :
        /\ Len(tokens_in) = 3
        /\ tokens_in[1] = VarBlock("b")
        /\ tokens_in[2].type = BlockTypes_FUNCTION_ID
        /\ tokens_in[3].type = BlockTypes_VALUE
        /\ kernel.ready /\ kernel.plugins = NonePlugins
        /\ kernel.arguments = EmptyArguments
        /\ pc[r] = "done"
        /\ outcome[r] = [kind |-> "string", value |-> ""]

\* C8: without a plugin name the function resolved is the one of the first
\* plugin, in registration order, that holds the name, and all renders against
\* the kernel dispatch to the same function.
C8_FirstRegistered ==
    \A r \in Renders :
        (/\ Started(r) /\ IsFunctionCall
         /\ block[1].plugin_name \in {NoPluginName, ""}
         /\ call[r].function # NoFunction) =>
            LET items == kernel.plugins.items
                holds(i) == \E fn \in items[i].functions :
                                fn.name = block[1].function_name
                first == Min({i \in 1..Len(items) : holds(i)})
            IN  /\ call[r].function \in items[first].functions
                /\ call[r].function.plugin_name = items[first].name
                /\ \A q \in Renders :
                       (Started(q) /\ call[q].function # NoFunction) =>
                           call[q].function = call[r].function

\* q registered before p, both holding f: `f` is q's
C8_Witness ==
    \E r \in Renders :
        /\ IsFunctionCall
        /\ block[1].plugin_name = NoPluginName
        /\ kernel.plugins = PluginCollection(<<Q_f, P_f_ab>>)
        /\ call[r].invoked
        /\ call[r].function = KernelFunction("q", "f", <<>>)

\* C9: a store constructed with a default dimensionality not above
\* MAX_DIMENSIONALITY creates a collection, when no dimension_num is given, with
\* that dimensionality, and does not fail before the request is sent.
C9_DefaultDimensionalityUsed ==
    (last_call.n > 0 /\ last_call.dimension_num = NoDimension) =>
        /\ last_call.raised \notin {"AttributeError", "ValueError"}
        /\ last_call.sent
        /\ requests # <<>>
        /\ requests[Len(requests)].dimension = store.default_dimensionality

StepOrder == <<"registry", "resolve", "bind", "invoke", "convert">>
Rank(step) == CHOOSE i \in 1..Len(StepOrder) : StepOrder[i] = step
StepsOf(r) == {steps[r][i] : i \in 1..Len(steps[r])}

\* C10: the steps of a function call's render come in the order registry check,
\* resolution, binding, invocation, conversion, each at most once; the function
\* is invoked only after the registry was found non-empty, a function was
\* resolved and the arguments, if any, were bound; a render that fails with
\* NoRegistry, FunctionNotFound or ArityMismatch never invoked; an absent or
\* empty registry gives NoRegistry; a render that returns a string invoked once.
C10_StepOrder ==
    \A r \in Renders :
        IsFunctionCall =>
            /\ \A i, j \in 1..Len(steps[r]) :
                   i < j => Rank(steps[r][i]) < Rank(steps[r][j])
            /\ Started(r) => Len(steps[r]) > 0 /\ steps[r][1] = "registry"
            /\ call[r].invoked <=> "invoke" \in StepsOf(r)
            /\ "convert" \in StepsOf(r) => "invoke" \in StepsOf(r)
            /\ "invoke" \in StepsOf(r) =>
                   /\ plugins_bool(kernel.plugins)
                   /\ "resolve" \in StepsOf(r)
                   /\ call[r].function # NoFunction
                   /\ Len(block) > 1 => "bind" \in StepsOf(r)
            /\ (Started(r) /\ ~plugins_bool(kernel.plugins)) =>
                   outcome[r] = [kind |-> "error", value |-> NoRegistry]
            /\ (outcome[r].kind = "error"
                /\ outcome[r].value \in {NoRegistry, FunctionNotFound, ArityMismatch}) =>
                   Count(steps[r], "invoke") = 0
            /\ outcome[r].kind = "string" =>
                   Count(steps[r], "invoke") = 1 /\ "convert" \in StepsOf(r)

\* a render of a call with arguments returned a string after all five steps
C10_Witness ==
    \E r \in Renders :
        /\ IsFunctionCall
        /\ steps[r] = StepOrder
        /\ outcome[r].kind = "string"

\* the positions of the named arguments of a call
NamedArgPositions(tokens) ==
    {i \in 2..Len(tokens) : tokens[i].type = BlockTypes_NAMED_ARG}

\* the token lists that hold the named arguments of `tokens` in another order
Reorderings(tokens) ==
    LET P == NamedArgPositions(tokens)
        perms == {pi \in [P -> P] : \A i, j \in P : pi[i] = pi[j] => i = j}
    IN  {[i \in 1..Len(tokens) |-> IF i \in P THEN tokens[pi[i]] ELSE tokens[i]] :
            pi \in perms}

\* what the binder leaves in a copy of the caller's arguments for a token list
Bound(tokens, function, arguments) ==
    _enrich_function_arguments(tokens, (BaseRef :> arguments), BaseRef, function).heap[BaseRef]

\* C11: the order of the named arguments does not change what the function is
\* invoked with: when the arguments of the call bind pairwise distinct names, the
\* binder gives the same arguments for every ordering of the named arguments
\* (also for a variable whose name another argument of the call binds); when a
\* name repeats, the last token binding it wins.
C11_OrderIndependent ==
    \A r \in Renders :
        (call[r].invoked /\ Len(block) > 1 /\ call[r].function.parameters # <<>>) =>
            LET parameters == call[r].function.parameters
                writers(n) == {i \in 2..Len(block) : BoundName(block, i, parameters) = n}
                distinct == \A n \in Names : Cardinality(writers(n)) <= 1
            IN  /\ distinct =>
                       \A other \in Reorderings(block) :
                           Bound(other, call[r].function, kernel.arguments)
                               = call[r].arguments
                /\ \A n \in Names :
                       writers(n) # {} =>
                           call[r].arguments[n] =
                               BoundValue(block, Max(writers(n)), parameters,
                                          kernel.arguments)

====
